---- MODULE Spec2Model ----
(***************************************************************************)
(* Bulk DOCX-to-PDF service: one submitted job (Batch) with its job files  *)
(* (Units), the dispatcher create_job, the Celery task convert_file_task   *)
(* (Worker) and the Celery task finalize_job_task (Finalizer).             *)
(*                                                                         *)
(* Every task invocation runs in its own database session.  The store is   *)
(* read and written statement by statement (READ COMMITTED), so a task is  *)
(* modelled as the sequence of its queries and commits; what a session     *)
(* read earlier is kept in the invocation's local fields.                  *)
(*                                                                         *)
(* Modelling choices:                                                      *)
(*  - one job; its files get the ids 1, 2, ... in the order of the loop;   *)
(*  - the entry names of the upload give distinct PDF names;               *)
(*  - the reload of an expired row that follows a commit is taken together *)
(*    with that commit;                                                    *)
(*  - the Converter, the presence of an input file, the task queue (order, *)
(*    concurrency, redelivery) and a failing write of the archive are the  *)
(*    environment's choice;                                                *)
(*  - get_job and download_job_result only read: they are functions of the *)
(*    state.                                                               *)
(***************************************************************************)
EXTENDS Integers, FiniteSets, Sequences, TLC

(* ---------------------------- bounds ----------------------------------- *)
MaxFiles == 2        \* DOCX entries of the uploaded ZIP, at most
MaxRedeliver == 1    \* redeliveries by the task queue (at-least-once), at most
PoolSize == 2        \* Celery worker processes executing tasks concurrently

FileIds == 1..MaxFiles
Slots == 1..PoolSize

(* ---------------------------- enums ------------------------------------ *)
\* JobStatus of models.py; NoJob stands for "no row in table jobs"
PENDING == "pending"
PROCESSING == "processing"
COMPLETED == "completed"
FAILED == "failed"
PARTIAL_SUCCESS == "partial_success"
NoJob == "none"
JobStatus == {PENDING, PROCESSING, COMPLETED, FAILED, PARTIAL_SUCCESS}
JobTerminal == {COMPLETED, FAILED, PARTIAL_SUCCESS}

\* FileStatus of models.py; NoFile stands for "no row in table job_files"
NoFile == "absent"
FileStatus == {PENDING, PROCESSING, COMPLETED, FAILED}
FileTerminal == {COMPLETED, FAILED}

\* error_message of a job file: NULL, or one of the two texts the Worker writes
NoError == "null"
TimeoutMessage == "Conversion timeout (exceeded 60 seconds)"
ErrorMessage == "conversion error"

\* outcomes of the LibreOffice subprocess
ConvertOutcome == {"ok", "no_output", "nonzero", "timeout"}

(* ---------------------------- state ------------------------------------ *)
VARIABLES
    job_status,      \* jobs.status of the one job, or NoJob
    file_status,     \* job_files.status per file id, or NoFile
    error_message,   \* job_files.error_message per file id
    input_exists,    \* file ids whose extracted input is found at input_path
    pdf,             \* file ids whose output PDF exists in the job directory
    bundle,          \* converted_files.zip in the job directory
    convert_queue,   \* queued convert_file_task messages per file id
    finalize_queue,  \* queued finalize_job_task messages
    redelivered,     \* redeliveries done so far
    dispatch,        \* create_job: position and response
    tasks            \* running task invocations, per pool slot

vars == <<job_status, file_status, error_message, input_exists, pdf, bundle,
          convert_queue, finalize_queue, redelivered, dispatch, tasks>>

store == <<job_status, file_status, error_message>>
disk == <<input_exists, pdf, bundle>>
queues == <<convert_queue, finalize_queue, redelivered>>

\* an archive: how often each job file's PDF occurs in it
NoEntries == [f \in FileIds |-> 0]
EntriesOf(S) == [f \in FileIds |-> IF f \in S THEN 1 ELSE 0]

Idle ==
    [kind |-> "idle", pc |-> "idle", file |-> 0, job_pending |-> FALSE,
     loaded |-> NoJob, message |-> NoError, failed |-> 0, total |-> 0,
     new_status |-> NoJob, entries |-> NoEntries]

NoBundle == [state |-> "absent", entries |-> NoEntries, mixed |-> FALSE]

Init ==
    /\ job_status = NoJob
    /\ file_status = [f \in FileIds |-> NoFile]
    /\ error_message = [f \in FileIds |-> NoError]
    /\ input_exists = {}
    /\ pdf = {}
    /\ bundle = NoBundle
    /\ convert_queue = [f \in FileIds |-> 0]
    /\ finalize_queue = 0
    /\ redelivered = 0
    /\ dispatch = [pc |-> "start", code |-> 0, status |-> NoJob]
    /\ tasks = [s \in Slots |-> Idle]

(* ---------------------------- helpers ---------------------------------- *)
Files == {f \in FileIds : file_status[f] # NoFile}
FilesIn(S) == {f \in FileIds : file_status[f] \in S}
Running(kind) == {s \in Slots : tasks[s].kind = kind}
Return(s) == tasks' = [tasks EXCEPT ![s] = Idle]
Goto(s, pc) == tasks' = [tasks EXCEPT ![s].pc = pc]

(* ---------------------------- create_job ------------------------------- *)
\* Job(status=PENDING); db.add; db.commit
CreateJob ==
    /\ dispatch.pc = "start"
    /\ job_status' = PENDING
    /\ dispatch' = [dispatch EXCEPT !.pc = "loop"]
    /\ UNCHANGED <<file_status, error_message, disk, queues, tasks>>

\* the files relationship without cascade="all, delete-orphan": the job row
\* goes, its file rows stay
DeleteJobOnly ==
    /\ job_status' = NoJob
    /\ input_exists' = {}
    /\ pdf' = {}
    /\ bundle' = NoBundle
    /\ UNCHANGED <<file_status, error_message>>

\* db.delete(job) cascades to the job files; shutil.rmtree(job_dir)
DeleteJob ==
    /\ job_status' = NoJob
    /\ file_status' = [f \in FileIds |-> NoFile]
    /\ error_message' = [f \in FileIds |-> NoError]
    /\ input_exists' = {}
    /\ pdf' = {}
    /\ bundle' = NoBundle

\* zipfile.ZipFile(zip_path) raises BadZipFile: "except zipfile.BadZipFile"
\* cleans up and answers 400 "Invalid ZIP file"
RejectBadZip ==
    /\ dispatch.pc = "loop"
    /\ Files = {}
    /\ DeleteJob
    /\ dispatch' = [pc |-> "done", code |-> 400, status |-> NoJob]
    /\ UNCHANGED <<queues, tasks>>

\* docx_files is empty: rmtree, db.delete(job), commit, then
\* raise HTTPException(400, "No DOCX files found in the ZIP archive").  The
\* raise stands inside the try block and HTTPException is an Exception, so
\* "except Exception" catches it: the directory is already gone, the job is
\* deleted a second time (nothing left to delete) and the response is 500
\* "Failed to process upload: 400: No DOCX files found in the ZIP archive".
RejectNoDocx ==
    /\ dispatch.pc = "loop"
    /\ Files = {}
    /\ DeleteJob
    /\ dispatch' = [pc |-> "done", code |-> 500, status |-> NoJob]
    /\ UNCHANGED <<queues, tasks>>

\* a loop iteration that calls convert_file_task.delay twice
AddFileTwice(f, found) ==
    /\ dispatch.pc = "loop"
    /\ f = Cardinality(Files) + 1
    /\ f \in FileIds
    /\ file_status' = [file_status EXCEPT ![f] = PENDING]
    /\ input_exists' = IF found THEN input_exists \cup {f} ELSE input_exists
    /\ convert_queue' = [convert_queue EXCEPT ![f] = @ + 2]
    /\ UNCHANGED <<job_status, error_message, pdf, bundle, finalize_queue,
                   redelivered, dispatch, tasks>>

\* one iteration of "for filename in docx_files": JobFile(status=PENDING),
\* commit, convert_file_task.delay(job_file.id).  The entry was extracted by
\* extractall; whether it is found again at join(job_dir, filename) depends on
\* the entry name (extractall sanitises names, the record keeps the raw name).
AddFile(f, found) ==
    /\ dispatch.pc = "loop"
    /\ f = Cardinality(Files) + 1
    /\ f \in FileIds
    /\ file_status' = [file_status EXCEPT ![f] = PENDING]
    /\ input_exists' = IF found THEN input_exists \cup {f} ELSE input_exists
    /\ convert_queue' = [convert_queue EXCEPT ![f] = @ + 1]
    /\ UNCHANGED <<job_status, error_message, pdf, bundle, finalize_queue,
                   redelivered, dispatch, tasks>>

\* the loop is over: JobResponse(job_id=job.id, status=job.status); job was
\* expired by the last commit, so job.status is read from the store here
ReturnAccepted ==
    /\ dispatch.pc = "loop"
    /\ Files # {}
    /\ dispatch' = [pc |-> "done", code |-> 202, status |-> job_status]
    /\ UNCHANGED <<store, disk, queues, tasks>>

\* "except Exception": an error inside the try block (the broker refusing
\* .delay, a failing commit) after the job row exists: cleanup and 500
FailUpload ==
    /\ dispatch.pc = "loop"
    /\ DeleteJob
    /\ dispatch' = [pc |-> "done", code |-> 500, status |-> NoJob]
    /\ UNCHANGED <<queues, tasks>>

\* the handler as its comment says it ("only when job is COMPLETED")
get_job_completed_only ==
    IF job_status = NoJob
    THEN [code |-> 404, status |-> NoJob, download_url |-> FALSE]
    ELSE [code |-> 200, status |-> job_status,
          download_url |-> job_status = COMPLETED]

(* ---------------------------- get_job, download_job_result ------------ *)
\* GET /jobs/{job_id}: 404 without the job row; otherwise the status and,
\* for COMPLETED and PARTIAL_SUCCESS only, the download_url.  Read-only: the
\* response is a function of the store.
get_job ==
    IF job_status = NoJob
    THEN [code |-> 404, status |-> NoJob, download_url |-> FALSE]
    ELSE [code |-> 200, status |-> job_status,
          download_url |-> job_status \in {COMPLETED, PARTIAL_SUCCESS}]

\* the handler without the status test of lines 113-117: the archive is
\* served whenever the file exists
download_ungated ==
    IF job_status = NoJob THEN [code |-> 404, archive |-> NoBundle]
    ELSE IF bundle.state = "absent" THEN [code |-> 404, archive |-> NoBundle]
    ELSE [code |-> 200, archive |-> bundle]

\* GET /jobs/{job_id}/download: 404 without the job row, 400 unless the
\* status is COMPLETED or PARTIAL_SUCCESS, 404 without converted_files.zip,
\* otherwise FileResponse sends the file as it is on disk.  Read-only.
download_job_result ==
    IF job_status = NoJob THEN [code |-> 404, archive |-> NoBundle]
    ELSE IF job_status \notin {COMPLETED, PARTIAL_SUCCESS}
         THEN [code |-> 400, archive |-> NoBundle]
    ELSE IF bundle.state = "absent" THEN [code |-> 404, archive |-> NoBundle]
    ELSE [code |-> 200, archive |-> bundle]

(* ---------------------------- task queue ------------------------------- *)
\* the queue delivers at-least-once: a message already handed out comes again
RedeliverConvert(f) ==
    /\ redelivered < MaxRedeliver
    /\ file_status[f] # NoFile
    /\ redelivered' = redelivered + 1
    /\ convert_queue' = [convert_queue EXCEPT ![f] = @ + 1]
    /\ UNCHANGED <<store, disk, finalize_queue, dispatch, tasks>>

RedeliverFinalize ==
    /\ redelivered < MaxRedeliver
    /\ finalize_queue > 0 \/ Running("finalize") # {}
    /\ redelivered' = redelivered + 1
    /\ finalize_queue' = finalize_queue + 1
    /\ UNCHANGED <<store, disk, convert_queue, dispatch, tasks>>

(* ---------------------------- convert_file_task ------------------------ *)
\* What a commit writes: the session emits an UPDATE of a column only when
\* the value assigned differs from the value it loaded; otherwise the row
\* keeps what the store holds.
Flush(assigned, loaded_value, stored) ==
    IF assigned # loaded_value THEN assigned ELSE stored

\* the task without the "if not file_record" return of lines 53-55
ConvertLoadUnchecked(s, f) ==
    /\ tasks[s].kind = "idle"
    /\ convert_queue[f] > 0
    /\ convert_queue' = [convert_queue EXCEPT ![f] = @ - 1]
    /\ tasks' = [tasks EXCEPT ![s] =
                    [Idle EXCEPT !.kind = "convert", !.pc = "commit",
                                 !.file = f,
                                 !.loaded = file_status[f],
                                 !.job_pending = (job_status = PENDING)]]
    /\ UNCHANGED <<store, disk, finalize_queue, redelivered, dispatch>>

\* a pool process takes a message and runs up to the first query:
\* file_record = db.query(JobFile)...first(); "File not found" returns.
\* The session holds the file row and the job row as it read them.
ConvertLoad(s, f) ==
    /\ tasks[s].kind = "idle"
    /\ convert_queue[f] > 0
    /\ convert_queue' = [convert_queue EXCEPT ![f] = @ - 1]
    /\ tasks' = IF file_status[f] = NoFile
                THEN tasks
                ELSE [tasks EXCEPT ![s] =
                        [Idle EXCEPT !.kind = "convert", !.pc = "commit",
                                     !.file = f,
                                     !.loaded = file_status[f],
                                     !.job_pending = (job_status = PENDING)]]
    /\ UNCHANGED <<store, disk, finalize_queue, redelivered, dispatch>>

\* the commit of line 65 without lines 62-63: the job status is left as it is
ConvertBeginFileOnly(s) ==
    LET f == tasks[s].file
        status == Flush(PROCESSING, tasks[s].loaded, file_status[f])
    IN
    /\ tasks[s].kind = "convert"
    /\ tasks[s].pc = "commit"
    /\ IF file_status[f] = NoFile
       THEN /\ Return(s)
            /\ UNCHANGED file_status
       ELSE /\ file_status' = [file_status EXCEPT ![f] = status]
            /\ tasks' = [tasks EXCEPT ![s].pc = "convert",
                                      ![s].loaded = status,
                                      ![s].message = error_message[f]]
    /\ UNCHANGED <<job_status, error_message, disk, queues, dispatch>>

\* file_record.status = PROCESSING; job.status = PROCESSING if it was read
\* PENDING; db.commit().  Neither UPDATE has a condition on the current row.
\* A row deleted in between makes the commit raise, which the outer except
\* swallows.  The commit expires the session: the next attribute access
\* (file_record.job_id, line 69) reloads the row.
ConvertBegin(s) ==
    LET f == tasks[s].file
        status == Flush(PROCESSING, tasks[s].loaded, file_status[f])
    IN
    /\ tasks[s].kind = "convert"
    /\ tasks[s].pc = "commit"
    /\ IF file_status[f] = NoFile
       THEN /\ Return(s)
            /\ UNCHANGED <<job_status, file_status>>
       ELSE /\ file_status' = [file_status EXCEPT ![f] = status]
            /\ job_status' = IF tasks[s].job_pending /\ job_status # NoJob
                             THEN PROCESSING ELSE job_status
            /\ tasks' = [tasks EXCEPT ![s].pc = "convert",
                                      ![s].loaded = status,
                                      ![s].message = error_message[f]]
    /\ UNCHANGED <<error_message, disk, queues, dispatch>>

\* the os.path.exists(output_path) check of line 111 left out
OutcomeStatusUnverified(outcome, has_pdf) ==
    IF outcome \in {"ok", "no_output"} THEN COMPLETED ELSE FAILED

\* the unit's new row values for an outcome of subprocess.run and the
\* os.path.exists(output_path) check that follows it
OutcomeStatus(outcome, has_pdf) ==
    IF outcome = "ok" \/ (outcome = "no_output" /\ has_pdf)
    THEN COMPLETED ELSE FAILED

OutcomeMessage(outcome, has_pdf, old) ==
    CASE outcome = "timeout" -> TimeoutMessage
      [] outcome = "nonzero" -> ErrorMessage
      [] outcome = "no_output" /\ ~has_pdf -> ErrorMessage
      [] OTHER -> old

\* a task that retries on timeout: it enqueues itself again and returns
\* without marking the file
ConvertRunRetry(s, outcome) ==
    LET f == tasks[s].file
        has_pdf == f \in pdf \/ outcome = "ok"
        status == OutcomeStatus(outcome, has_pdf)
        message == OutcomeMessage(outcome, has_pdf, tasks[s].message)
    IN
    /\ tasks[s].kind = "convert"
    /\ tasks[s].pc = "convert"
    /\ IF file_status[f] = NoFile \/ f \notin input_exists
       THEN /\ Return(s)
            /\ UNCHANGED <<file_status, error_message, pdf, convert_queue>>
       ELSE IF outcome = "timeout"
       THEN /\ Return(s)
            /\ convert_queue' = [convert_queue EXCEPT ![f] = @ + 1]
            /\ UNCHANGED <<file_status, error_message, pdf>>
       ELSE /\ pdf' = IF outcome = "ok" THEN pdf \cup {f} ELSE pdf
            /\ file_status' =
                 [file_status EXCEPT
                    ![f] = Flush(status, tasks[s].loaded, @)]
            /\ error_message' =
                 [error_message EXCEPT
                    ![f] = Flush(message, tasks[s].message, @)]
            /\ Goto(s, "trigger")
            /\ UNCHANGED convert_queue
    /\ UNCHANGED <<job_status, input_exists, bundle, finalize_queue,
                   redelivered, dispatch>>

\* FileNotFoundError (line 79) with no "except Exception" around the task
\* body: the invocation ends by raising
ConvertRunUncaught(s, outcome) ==
    LET f == tasks[s].file
        has_pdf == f \in pdf \/ outcome = "ok"
        status == OutcomeStatus(outcome, has_pdf)
        message == OutcomeMessage(outcome, has_pdf, tasks[s].message)
    IN
    /\ tasks[s].kind = "convert"
    /\ tasks[s].pc = "convert"
    /\ IF file_status[f] = NoFile \/ f \notin input_exists
       THEN /\ Goto(s, "raised")
            /\ UNCHANGED <<file_status, error_message, pdf>>
       ELSE /\ pdf' = IF outcome = "ok" THEN pdf \cup {f} ELSE pdf
            /\ file_status' =
                 [file_status EXCEPT
                    ![f] = Flush(status, tasks[s].loaded, @)]
            /\ error_message' =
                 [error_message EXCEPT
                    ![f] = Flush(message, tasks[s].message, @)]
            /\ Goto(s, "trigger")
    /\ UNCHANGED <<job_status, input_exists, bundle, queues, dispatch>>

\* the result committed only after the finalize call: the row still holds
\* what line 65 wrote when the task reaches finalize_job_task.delay
ConvertRunDeferred(s, outcome) ==
    LET f == tasks[s].file IN
    /\ tasks[s].kind = "convert"
    /\ tasks[s].pc = "convert"
    /\ IF file_status[f] = NoFile \/ f \notin input_exists
       THEN Return(s)
       ELSE Goto(s, "trigger")
    /\ pdf' = IF outcome = "ok" /\ file_status[f] # NoFile /\ f \in input_exists
              THEN pdf \cup {f} ELSE pdf
    /\ UNCHANGED <<store, input_exists, bundle, queues, dispatch>>

\* lines 67-132: the input check, the conversion and the commit of its result.
\* FileNotFoundError is raised outside the inner try: the outer except logs
\* it and the task returns.
ConvertRun(s, outcome) ==
    LET f == tasks[s].file
        has_pdf == f \in pdf \/ outcome = "ok"
        status == OutcomeStatus(outcome, has_pdf)
        message == OutcomeMessage(outcome, has_pdf, tasks[s].message)
    IN
    /\ tasks[s].kind = "convert"
    /\ tasks[s].pc = "convert"
    /\ IF file_status[f] = NoFile \/ f \notin input_exists
       THEN /\ Return(s)
            /\ UNCHANGED <<file_status, error_message, pdf>>
       ELSE /\ pdf' = IF outcome = "ok" THEN pdf \cup {f} ELSE pdf
            /\ file_status' =
                 [file_status EXCEPT
                    ![f] = Flush(status, tasks[s].loaded, @)]
            /\ error_message' =
                 [error_message EXCEPT
                    ![f] = Flush(message, tasks[s].message, @)]
            /\ Goto(s, "trigger")
    /\ UNCHANGED <<job_status, input_exists, bundle, queues, dispatch>>

\* finalize_job_task.delay(file_record.job_id); file_record was expired by
\* the commit, reading job_id of a deleted row raises
ConvertTrigger(s) ==
    LET f == tasks[s].file IN
    /\ tasks[s].kind = "convert"
    /\ tasks[s].pc = "trigger"
    /\ finalize_queue' =
         IF file_status[f] = NoFile THEN finalize_queue ELSE finalize_queue + 1
    /\ Return(s)
    /\ UNCHANGED <<store, disk, convert_queue, redelivered, dispatch>>

(* ---------------------------- finalize_job_task ------------------------ *)
\* the chain with its second test first: any FAILED file means PARTIAL_SUCCESS
ComputeStatusAnyFailed(failed_count, total_count) ==
    IF failed_count > 0 THEN PARTIAL_SUCCESS
    ELSE IF failed_count = total_count /\ total_count > 0 THEN FAILED
    ELSE COMPLETED

\* lines 70-87: the job status for failed_count of total_count job files
ComputeStatus(failed_count, total_count) ==
    IF failed_count = total_count /\ total_count > 0 THEN FAILED
    ELSE IF failed_count > 0 THEN PARTIAL_SUCCESS
    ELSE COMPLETED

\* the task without the "if not job" return of lines 52-54
FinalizeLoadUnchecked(s) ==
    /\ tasks[s].kind = "idle"
    /\ finalize_queue > 0
    /\ finalize_queue' = finalize_queue - 1
    /\ tasks' = [tasks EXCEPT ![s] =
                    [Idle EXCEPT !.kind = "finalize", !.pc = "pending",
                                 !.loaded = job_status]]
    /\ UNCHANGED <<store, disk, convert_queue, redelivered, dispatch>>

\* a pool process takes a message; job = db.query(Job)...first();
\* "Job not found" returns.  The session keeps job.status as loaded.
FinalizeLoad(s) ==
    /\ tasks[s].kind = "idle"
    /\ finalize_queue > 0
    /\ finalize_queue' = finalize_queue - 1
    /\ tasks' = IF job_status = NoJob
                THEN tasks
                ELSE [tasks EXCEPT ![s] =
                        [Idle EXCEPT !.kind = "finalize", !.pc = "pending",
                                     !.loaded = job_status]]
    /\ UNCHANGED <<store, disk, convert_queue, redelivered, dispatch>>

\* a finalizer that, finding files outstanding, writes the job back to
\* PROCESSING before it returns
FinalizePendingReopens(s) ==
    /\ tasks[s].kind = "finalize"
    /\ tasks[s].pc = "pending"
    /\ IF FilesIn({PENDING, PROCESSING}) # {}
       THEN /\ Return(s)
            /\ job_status' = IF job_status = NoJob THEN NoJob ELSE PROCESSING
       ELSE /\ Goto(s, "failed")
            /\ UNCHANGED job_status
    /\ UNCHANGED <<file_status, error_message, disk, queues, dispatch>>

\* the pending count with PENDING only in the filter of line 61
FinalizePendingOnly(s) ==
    /\ tasks[s].kind = "finalize"
    /\ tasks[s].pc = "pending"
    /\ IF FilesIn({PENDING}) # {}
       THEN Return(s)
       ELSE Goto(s, "failed")
    /\ UNCHANGED <<store, disk, queues, dispatch>>

\* pending_files = count of job files in (PENDING, PROCESSING); > 0 returns
FinalizePending(s) ==
    /\ tasks[s].kind = "finalize"
    /\ tasks[s].pc = "pending"
    /\ IF FilesIn({PENDING, PROCESSING}) # {}
       THEN Return(s)
       ELSE Goto(s, "failed")
    /\ UNCHANGED <<store, disk, queues, dispatch>>

\* failed_count = count of job files in FAILED
FinalizeFailed(s) ==
    /\ tasks[s].kind = "finalize"
    /\ tasks[s].pc = "failed"
    /\ tasks' = [tasks EXCEPT ![s].failed = Cardinality(FilesIn({FAILED})),
                              ![s].pc = "total"]
    /\ UNCHANGED <<store, disk, queues, dispatch>>

\* total_count = len(job.files) (lazy load), then job.status = ... in the
\* session; a FAILED job skips the archive
FinalizeTotal(s) ==
    LET total_count == Cardinality(Files)
        status == ComputeStatus(tasks[s].failed, total_count)
    IN
    /\ tasks[s].kind = "finalize"
    /\ tasks[s].pc = "total"
    /\ tasks' = [tasks EXCEPT ![s].total = total_count,
                              ![s].new_status = status,
                              ![s].pc = IF status = FAILED
                                        THEN "commit" ELSE "query"]
    /\ UNCHANGED <<store, disk, queues, dispatch>>

\* the archive opened in mode 'a': the entries are added to those it holds
OpenArchiveAppend(s, entries) ==
    [state |-> "partial",
     entries |-> [f \in FileIds |-> bundle.entries[f] + entries[f]],
     mixed |-> bundle.mixed]

\* zipfile.ZipFile(output_zip, 'w'): the archive is truncated when opened.
\* A writer that still has it open keeps writing into the new file.
OpenArchive(s, entries) ==
    LET writers == {t \in Slots \ {s} : tasks[t].pc = "zip"} IN
    IF writers = {}
    THEN [state |-> "partial", entries |-> entries, mixed |-> FALSE]
    ELSE [state |-> "partial", entries |-> bundle.entries,
          mixed |-> bundle.mixed \/ entries # bundle.entries]

\* a finalizer that gives the archive up when an expected PDF is missing
FinalizeQueryStrict(s) ==
    LET completed_files == FilesIn({COMPLETED})
        entries == EntriesOf(completed_files)
    IN
    /\ tasks[s].kind = "finalize"
    /\ tasks[s].pc = "query"
    /\ IF completed_files = {} \/ job_status = NoJob
          \/ ~(completed_files \subseteq pdf)
       THEN /\ Goto(s, "commit")
            /\ UNCHANGED bundle
       ELSE /\ tasks' = [tasks EXCEPT ![s].entries = entries, ![s].pc = "zip"]
            /\ bundle' = OpenArchive(s, entries)
    /\ UNCHANGED <<store, input_exists, pdf, queues, dispatch>>

\* completed_files = job files in COMPLETED; none: nothing to archive.
\* Otherwise the archive is opened; its entries are the PDFs that exist.
\* Without the job directory the open raises, which is caught and logged.
FinalizeQuery(s) ==
    LET completed_files == FilesIn({COMPLETED})
        entries == EntriesOf(completed_files \cap pdf)
    IN
    /\ tasks[s].kind = "finalize"
    /\ tasks[s].pc = "query"
    /\ IF completed_files = {} \/ job_status = NoJob
       THEN /\ Goto(s, "commit")
            /\ UNCHANGED bundle
       ELSE /\ tasks' = [tasks EXCEPT ![s].entries = entries, ![s].pc = "zip"]
            /\ bundle' = OpenArchive(s, entries)
    /\ UNCHANGED <<store, input_exists, pdf, queues, dispatch>>

\* the with-block ends: entries and central directory are written.  Writers
\* of the same content write the same bytes at the same offsets; writers of
\* different content leave either the last content or a damaged file.
FinalizeArchive(s, damaged) ==
    LET writers == {t \in Slots \ {s} : tasks[t].pc = "zip"} IN
    /\ tasks[s].kind = "finalize"
    /\ tasks[s].pc = "zip"
    /\ bundle' =
         IF job_status = NoJob THEN NoBundle
         ELSE IF writers # {} THEN bundle
         ELSE IF ~bundle.mixed
              THEN [state |-> "ok", entries |-> bundle.entries, mixed |-> FALSE]
         ELSE IF damaged
              THEN [state |-> "corrupt", entries |-> NoEntries, mixed |-> FALSE]
         ELSE [state |-> "ok", entries |-> tasks[s].entries, mixed |-> FALSE]
    /\ damaged => (job_status # NoJob /\ writers = {} /\ bundle.mixed)
    /\ Goto(s, "commit")
    /\ UNCHANGED <<store, input_exists, pdf, queues, dispatch>>

\* line 104 raises (the job directory is not writable or is gone): the
\* except of line 120 logs it, the archive on disk is as it was
FinalizeOpenFails(s) ==
    /\ tasks[s].kind = "finalize"
    /\ tasks[s].pc = "query"
    /\ FilesIn({COMPLETED}) # {}
    /\ Goto(s, "commit")
    /\ UNCHANGED <<store, disk, queues, dispatch>>

\* what a writer that raises leaves on disk: the with-block closes the
\* archive with the entries written so far, or the close fails as well
ArchiveLeft(s) ==
    {[state |-> "corrupt", entries |-> NoEntries, mixed |-> FALSE]}
    \cup {[state |-> "ok", entries |-> EntriesOf(W), mixed |-> FALSE] :
            W \in SUBSET {f \in FileIds : tasks[s].entries[f] > 0}
                \ {{f \in FileIds : tasks[s].entries[f] > 0}}}

\* the error of zipf.write propagates out of finalize_job_task: the outer
\* except logs it and the commit of line 127 is skipped
FinalizeWriteFailsUncaught(s, left) ==
    LET writers == {t \in Slots \ {s} : tasks[t].pc = "zip"} IN
    /\ tasks[s].kind = "finalize"
    /\ tasks[s].pc = "zip"
    /\ left \in ArchiveLeft(s)
    /\ bundle' = IF job_status = NoJob THEN NoBundle
                 ELSE IF writers # {} THEN [bundle EXCEPT !.mixed = TRUE]
                 ELSE left
    /\ Return(s)
    /\ UNCHANGED <<store, input_exists, pdf, queues, dispatch>>

\* zipf.write or the close of the archive raises (disk full, a PDF removed
\* after the exists check): the except of line 120 logs it and the task
\* goes on to the commit.  Bytes written next to another writer's may damage
\* what that writer leaves.
FinalizeWriteFails(s, left) ==
    LET writers == {t \in Slots \ {s} : tasks[t].pc = "zip"} IN
    /\ tasks[s].kind = "finalize"
    /\ tasks[s].pc = "zip"
    /\ left \in ArchiveLeft(s)
    /\ bundle' = IF job_status = NoJob THEN NoBundle
                 ELSE IF writers # {} THEN [bundle EXCEPT !.mixed = TRUE]
                 ELSE left
    /\ Goto(s, "commit")
    /\ UNCHANGED <<store, input_exists, pdf, queues, dispatch>>

\* db.commit(): UPDATE jobs SET status only if job.status differs from the
\* value the session loaded; a deleted job row makes the commit raise
FinalizeCommit(s) ==
    /\ tasks[s].kind = "finalize"
    /\ tasks[s].pc = "commit"
    /\ job_status' = IF job_status = NoJob THEN NoJob
                     ELSE Flush(tasks[s].new_status, tasks[s].loaded, job_status)
    /\ Return(s)
    /\ UNCHANGED <<file_status, error_message, disk, queues, dispatch>>

(* ---------------------------- specification ---------------------------- *)
Dispatcher ==
    \/ CreateJob
    \/ RejectBadZip
    \/ RejectNoDocx
    \/ \E f \in FileIds, found \in BOOLEAN : AddFile(f, found)
    \/ ReturnAccepted
    \/ FailUpload

Queue ==
    \/ \E f \in FileIds : RedeliverConvert(f)
    \/ RedeliverFinalize

Worker(s) ==
    \/ \E f \in FileIds : ConvertLoad(s, f)
    \/ ConvertBegin(s)
    \/ \E outcome \in ConvertOutcome : ConvertRun(s, outcome)
    \/ ConvertTrigger(s)

Finalizer(s) ==
    \/ FinalizeLoad(s)
    \/ FinalizePending(s)
    \/ FinalizeFailed(s)
    \/ FinalizeTotal(s)
    \/ FinalizeQuery(s)
    \/ \E damaged \in BOOLEAN : FinalizeArchive(s, damaged)
    \/ FinalizeCommit(s)

\* the archive cannot be written
ArchiveFault(s) ==
    \/ FinalizeOpenFails(s)
    \/ \E left \in ArchiveLeft(s) : FinalizeWriteFails(s, left)

Next ==
    \/ Dispatcher
    \/ Queue
    \/ \E s \in Slots : Worker(s) \/ Finalizer(s) \/ ArchiveFault(s)

Spec == Init /\ [][Next]_vars

TypeOK ==
    /\ job_status \in JobStatus \cup {NoJob}
    /\ file_status \in [FileIds -> FileStatus \cup {NoFile}]
    /\ error_message \in [FileIds -> {NoError, TimeoutMessage, ErrorMessage}]
    /\ input_exists \subseteq FileIds
    /\ pdf \subseteq FileIds
    /\ bundle.state \in {"absent", "partial", "ok", "corrupt"}
    /\ finalize_queue \in Nat

(* ---------------------------- properties -------------------------------- *)
AllTerminal == \A f \in Files : file_status[f] \in FileTerminal
FailedCount == Cardinality(FilesIn({FAILED}))
TotalCount == Cardinality(Files)

\* the aggregate of section 8: k of n job files FAILED, n > 0
AggregateOf(k, n) ==
    CASE k = n -> FAILED
      [] 0 < k /\ k < n -> PARTIAL_SUCCESS
      [] k = 0 -> COMPLETED

(* ---------------------------- C1 .. C3 -------------------------------- *)
\* nothing is queued or running and the upload was accepted
AtRest ==
    /\ dispatch.pc = "done"
    /\ dispatch.code = 202
    /\ \A f \in FileIds : convert_queue[f] = 0
    /\ finalize_queue = 0
    /\ \A s \in Slots : tasks[s].kind = "idle"

\* C1 (completion equivalence): for a job that has job files, the job status
\* is terminal only if every job file is terminal, and, once nothing is
\* queued or running any more, it is terminal if every job file is terminal.
C1_CompletionEquivalence ==
    (job_status # NoJob /\ Files # {}) =>
        /\ job_status \in JobTerminal => AllTerminal
        /\ (AtRest /\ AllTerminal) => job_status \in JobTerminal

\* C2 (no premature finalization): a Finalize commit that updates the job row
\* to a terminal status happens only when no job file is PENDING or
\* PROCESSING.
C2_NoPrematureFinalization ==
    [][\A s \in Slots :
         (FinalizeCommit(s) /\ job_status # NoJob
            /\ tasks[s].new_status # tasks[s].loaded)
           => FilesIn({PENDING, PROCESSING}) = {}]_vars

\* C3 (eventual completion), as the result of a finished run: when the
\* upload was accepted and every queued task has run to its end, the job
\* status is terminal.
C3_EventualCompletion ==
    AtRest => job_status \in JobTerminal

(* ---------------------------- C4, C5 ---------------------------------- *)
\* The race of section 8: every job file of an accepted upload has just
\* become terminal, each Worker has enqueued its finalize_job_task and none
\* of them has started; nothing is redelivered.
InitRace ==
    /\ job_status = PROCESSING
    /\ file_status \in [FileIds -> FileTerminal \cup {NoFile}]
    /\ \E n \in FileIds : Files = 1..n
    /\ error_message \in [FileIds -> {NoError, TimeoutMessage, ErrorMessage}]
    /\ \A f \in FileIds : file_status[f] = FAILED <=> error_message[f] # NoError
    /\ input_exists = Files
    /\ pdf = FilesIn({COMPLETED})
    /\ bundle = NoBundle
    /\ convert_queue = [f \in FileIds |-> 0]
    /\ finalize_queue = Cardinality(Files)
    /\ redelivered = MaxRedeliver
    /\ dispatch = [pc |-> "done", code |-> 202, status |-> PENDING]
    /\ tasks = [s \in Slots |-> Idle]

NextRace == \E s \in Slots : Finalizer(s)

SpecRace == InitRace /\ [][NextRace]_vars

RaceOver ==
    /\ finalize_queue = 0
    /\ \A s \in Slots : tasks[s].kind = "idle"

\* C4 (aggregate correctness): with all n > 0 job files terminal and k of
\* them FAILED, every Finalize commit leaves the job status FAILED if k = n,
\* PARTIAL_SUCCESS if 0 < k < n and COMPLETED if k = 0.
C4_AggregateCorrectness ==
    [][\A s \in Slots :
         (FinalizeCommit(s) /\ AllTerminal /\ TotalCount > 0)
           => job_status' = AggregateOf(FailedCount, TotalCount)]_vars

\* a Finalize invocation has committed PARTIAL_SUCCESS for a mixed job
C4_Witness ==
    /\ job_status = PARTIAL_SUCCESS
    /\ 0 < FailedCount
    /\ FailedCount < TotalCount

\* C5 (concurrency race): when the Finalize invocations triggered by job
\* files that became terminal together have all run, interleaved in any way,
\* the job holds a terminal status, a terminal status once written is never
\* replaced by another, and the archive is complete with the PDF of each
\* COMPLETED file exactly once (no archive if none is COMPLETED).
C5_ConcurrencyRace ==
    /\ [](RaceOver =>
            /\ job_status \in JobTerminal
            /\ IF FilesIn({COMPLETED}) = {}
               THEN bundle = NoBundle
               ELSE /\ bundle.state = "ok"
                    /\ bundle.entries = EntriesOf(FilesIn({COMPLETED})))
    /\ [][(job_status \in JobTerminal) => (job_status' = job_status)]_vars

\* two Finalize invocations have the archive open at the same time
C5_Witness ==
    \E s, t \in Slots :
        /\ s # t
        /\ tasks[s].pc = "zip"
        /\ tasks[t].pc = "zip"
        /\ bundle.state = "partial"

(* ---------------------------- C6 .. C10 ------------------------------- *)
\* C6 (Finalize idempotence): a Finalize invocation that loaded the job with
\* a terminal status changes neither the job status nor the entries of a
\* complete archive.
C6_FinalizeIdempotent ==
    [][\A s \in Slots :
         (tasks[s].kind = "finalize" /\ tasks[s].loaded \in JobTerminal
            /\ Finalizer(s))
           => /\ job_status' = job_status
              /\ bundle.state = "ok" => bundle'.entries = bundle.entries]_vars

\* C7 (Unit status is monotonic): no step changes the status of a job file
\* that is COMPLETED or FAILED and stays in the store.
C7_UnitMonotonic ==
    [][\A f \in FileIds :
         (file_status[f] \in FileTerminal /\ file_status'[f] # NoFile)
           => file_status'[f] = file_status[f]]_vars

\* C8 (Finalization is always triggered): a Worker invocation that loaded its
\* job file and returns while the file is still in the store has enqueued a
\* finalize_job_task on returning.
C8_FinalizeAlwaysTriggered ==
    [][\A s \in Slots :
         (tasks[s].kind = "convert" /\ tasks'[s].kind = "idle"
            /\ file_status'[tasks[s].file] # NoFile)
           => finalize_queue' = finalize_queue + 1]_vars

\* C9 (a Worker invocation resolves its Unit): the step of a Worker
\* invocation that follows its commit of PROCESSING leaves the job file, if
\* still in the store, COMPLETED or FAILED.
C9_WorkerResolvesUnit ==
    [][\A s \in Slots : \A outcome \in ConvertOutcome :
         (ConvertRun(s, outcome) /\ file_status'[tasks[s].file] # NoFile)
           => file_status'[tasks[s].file] \in FileTerminal]_vars

\* C10 (redundant delivery): a Worker invocation that loaded its job file as
\* COMPLETED or FAILED leaves status and error_message of every job file as
\* they are.
C10_RedundantDelivery ==
    [][\A s \in Slots :
         (tasks[s].kind = "convert" /\ tasks[s].pc = "commit"
            /\ tasks[s].loaded \in FileTerminal /\ Worker(s))
           => (file_status' = file_status
               /\ error_message' = error_message)]_vars

(* ---------------------------- C11 ------------------------------------- *)
\* every message is delivered once: the program without redelivery
NextOnce ==
    \/ Dispatcher
    \/ \E s \in Slots : Worker(s) \/ Finalizer(s)

SpecOnce == Init /\ [][NextOnce]_vars

\* C11 (Worker outcome mapping): with the input file present, the Worker
\* leaves the job file COMPLETED exactly when LibreOffice exited with 0 and
\* the output PDF exists; after a timeout it leaves it FAILED with the
\* timeout text; after a non-zero exit or without an output PDF it leaves it
\* FAILED with the description of the failure.
C11_OutcomeMapping ==
    [][\A s \in Slots : \A outcome \in ConvertOutcome :
         LET f == tasks[s].file IN
         (ConvertRun(s, outcome) /\ file_status[f] # NoFile
            /\ f \in input_exists)
           => /\ file_status'[f] = COMPLETED
                    <=> (outcome \in {"ok", "no_output"} /\ f \in pdf')
              /\ outcome = "timeout"
                    => (file_status'[f] = FAILED
                        /\ error_message'[f] = TimeoutMessage)
              /\ (outcome = "nonzero"
                    \/ (outcome \in {"ok", "no_output"} /\ f \notin pdf'))
                    => (file_status'[f] = FAILED
                        /\ error_message'[f] = ErrorMessage)]_vars

\* a Worker has run into the timeout on an input that exists, and another
\* job file was converted
C11_Witness ==
    \E f, g \in FileIds :
        /\ f \in input_exists
        /\ file_status[f] = FAILED
        /\ error_message[f] = TimeoutMessage
        /\ file_status[g] = COMPLETED
        /\ g \in pdf

(* ---------------------------- C12 ------------------------------------- *)
\* C12 (one terminal value): once the job status is COMPLETED, FAILED or
\* PARTIAL_SUCCESS, no step of create_job, of a Worker or of a Finalize
\* invocation replaces it by another status while the job row exists.
C12_OneTerminalValue ==
    [][(job_status \in JobTerminal /\ job_status' # NoJob)
         => (job_status' = job_status)]_vars

(* ---------------------------- C13 .. C15 ------------------------------ *)
\* the step of a Finalize invocation that opens the archive for writing
BuildsBundle(s) == FinalizeQuery(s) /\ tasks'[s].pc = "zip"

\* C13 (the bundle is built exactly once): over all Finalize invocations of
\* a job the archive is constructed one time, by an invocation that computed
\* COMPLETED or PARTIAL_SUCCESS for a job with a COMPLETED job file.
C13_BundleBuiltOnce ==
    [][\A s \in Slots :
         BuildsBundle(s)
           => /\ bundle.state = "absent"
              /\ tasks[s].new_status \in {COMPLETED, PARTIAL_SUCCESS}
              /\ FilesIn({COMPLETED}) # {}]_vars

\* C14 (bundle contents): when all tasks of an accepted upload have run, a
\* complete archive holds the PDF of every COMPLETED job file and of no
\* FAILED one; with two job files, one COMPLETED and one FAILED, the job is
\* PARTIAL_SUCCESS and the archive holds the PDF of the COMPLETED file only.
C14_BundleContents ==
    (AtRest /\ job_status \in JobTerminal) =>
        /\ bundle.state # "absent"
             => bundle = [state |-> "ok",
                          entries |-> EntriesOf(FilesIn({COMPLETED})),
                          mixed |-> FALSE]
        /\ (TotalCount = 2 /\ FailedCount = 1 /\ AllTerminal)
             => (job_status = PARTIAL_SUCCESS /\ bundle.state = "ok")

\* C15 (all FAILED: no bundle): when all tasks of an accepted upload have
\* run, no archive exists for a job whose status is FAILED, and a job whose
\* files are all FAILED has the status FAILED.
C15_FailedNoBundle ==
    AtRest =>
        /\ job_status = FAILED => bundle = NoBundle
        /\ (TotalCount > 0 /\ FailedCount = TotalCount)
             => job_status = FAILED

(* ---------------------------- C16 ------------------------------------- *)
\* C16 (bundle visible with terminal status): whenever the status query
\* answers COMPLETED or PARTIAL_SUCCESS, the download answers 200 with a
\* complete archive that holds at least one PDF.
C16_BundleVisible ==
    (get_job.code = 200 /\ get_job.status \in {COMPLETED, PARTIAL_SUCCESS})
      => /\ download_job_result.code = 200
         /\ download_job_result.archive.state = "ok"
         /\ \E f \in FileIds : download_job_result.archive.entries[f] > 0

(* ---------------------------- C17 ------------------------------------- *)
\* the race of section 8 with archive construction that may fail
NextFault == \E s \in Slots : Finalizer(s) \/ ArchiveFault(s)

SpecFault == InitRace /\ [][NextFault]_vars

\* C17 (bundle failure is non-fatal): when the Finalize invocations of a job
\* with a COMPLETED file have all run and left no complete archive, because
\* building it raised, the job nevertheless holds the terminal status
\* computed from its files.
C17_BundleFailureNonFatal ==
    (RaceOver /\ FilesIn({COMPLETED}) # {} /\ bundle.state # "ok")
      => job_status = AggregateOf(FailedCount, TotalCount)

\* every Finalize invocation failed to build the archive and the job is
\* terminal without one
C17_Witness ==
    /\ RaceOver
    /\ FilesIn({COMPLETED}) # {}
    /\ bundle.state \in {"absent", "corrupt"}
    /\ job_status \in {COMPLETED, PARTIAL_SUCCESS}

(* ---------------------------- C18 ------------------------------------- *)
\* C18 (error_detail only on FAILED): a job file whose status is PENDING,
\* PROCESSING or COMPLETED has no error_message.
C18_ErrorOnlyOnFailed ==
    \A f \in Files :
        file_status[f] \in {PENDING, PROCESSING, COMPLETED}
          => error_message[f] = NoError

(* ---------------------------- C19, C20 -------------------------------- *)
\* C19 (the job leaves PENDING with its first job file): whenever a job file
\* has a status other than PENDING the job status is not PENDING; the step
\* that takes a job file from PENDING to PROCESSING leaves the job not
\* PENDING, and the job goes from PENDING to PROCESSING only in a step that
\* takes a job file from PENDING to PROCESSING.
C19_JobLeavesPending ==
    /\ []((\E f \in Files : file_status[f] # PENDING) => job_status # PENDING)
    /\ [][/\ \A f \in FileIds :
               (file_status[f] = PENDING
                  /\ file_status'[f] \notin {PENDING, NoFile})
                 => (file_status'[f] = PROCESSING /\ job_status' # PENDING)
          /\ (job_status = PENDING /\ job_status' = PROCESSING)
               => \E f \in FileIds : /\ file_status[f] = PENDING
                                     /\ file_status'[f] = PROCESSING]_vars

\* the Worker of the first job file has committed PROCESSING for the file
\* and for the job while the second file is still PENDING
C19_Witness ==
    /\ job_status = PROCESSING
    /\ file_status[1] = PROCESSING
    /\ file_status[2] = PENDING
    /\ \E s \in Slots : tasks[s].kind = "convert" /\ tasks[s].pc = "convert"

\* C20 (Finalize with outstanding job files is a no-op): a Finalize
\* invocation whose pending count finds a PENDING or PROCESSING job file
\* returns at that step, and none of its steps changes the job status, a job
\* file or the archive.
C20_FinalizeOutstandingNoOp ==
    [][\A s \in Slots :
         /\ FinalizeLoad(s)
              => UNCHANGED <<job_status, file_status, error_message, bundle>>
         /\ (tasks[s].kind = "finalize" /\ tasks[s].pc = "pending"
               /\ FilesIn({PENDING, PROCESSING}) # {} /\ tasks'[s] # tasks[s])
              => /\ tasks'[s] = Idle
                 /\ UNCHANGED <<job_status, file_status, error_message,
                                bundle>>]_vars

\* one of two job files is terminal and its Finalize has run and returned;
\* the other is still PROCESSING and the job status is PROCESSING
C20_Witness ==
    /\ TotalCount = 2
    /\ job_status = PROCESSING
    /\ bundle = NoBundle
    /\ finalize_queue = 0
    /\ redelivered = 0
    /\ \E f, g \in Files :
         /\ file_status[f] \in FileTerminal
         /\ file_status[g] = PROCESSING
         /\ \A s \in Slots :
              tasks[s].kind = "idle"
                \/ (tasks[s].kind = "convert" /\ tasks[s].file = g)

(* ---------------------------- C21 -------------------------------------- *)
\* C21: read-your-writes inside one convert_file_task invocation: when the
\* invocation enqueues finalize_job_task, the terminal status of its file is
\* already committed, and with no other invocation for that file the row
\* keeps a terminal status from then on, so the finalizer it triggered
\* never reads that file as PENDING or PROCESSING.
C21_ReadYourWrites ==
    [][/\ \A s \in Slots :
            (ConvertTrigger(s) /\ finalize_queue' = finalize_queue + 1)
              => file_status[tasks[s].file] \in FileTerminal
       /\ \A f \in FileIds :
            file_status[f] \in FileTerminal
              => file_status'[f] \in FileTerminal \cup {NoFile}]_vars

\* a finalizer triggered by a worker has read the pending count while the
\* worker's file is terminal
C21_Witness ==
    \E s \in Slots, f \in FileIds :
        /\ tasks[s].kind = "finalize"
        /\ tasks[s].pc # "pending"
        /\ file_status[f] \in FileTerminal

(* ---------------------------- C22 -------------------------------------- *)
\* C22: the job and all its files are created before any worker runs: at
\* the step that creates a file, no convert_file_task has been enqueued or
\* started and no finalize_job_task is queued or running.
C22_UnitsBeforeWorkers ==
    [][(\E f \in FileIds, found \in BOOLEAN : AddFile(f, found))
         => /\ \A g \in FileIds : convert_queue[g] = 0
            /\ finalize_queue = 0
            /\ \A s \in Slots : tasks[s] = Idle]_vars

(* ---------------------------- C23 -------------------------------------- *)
\* C23: no error escapes a task: an invocation that has not returned can
\* always take its next step, whatever the conversion outcome, the input
\* files, the rows deleted under it or the archive error, so every
\* invocation runs to its return; it never stops at a raised error.
C23_NoErrorEscapes ==
    \A s \in Slots :
        tasks[s].kind # "idle"
          => ENABLED (Worker(s) \/ Finalizer(s) \/ ArchiveFault(s))

\* every task has returned after a worker met a missing input file: the file
\* is left PROCESSING and nothing is queued or running
C23_Witness ==
    /\ \A s \in Slots : tasks[s] = Idle
    /\ \A f \in FileIds : convert_queue[f] = 0
    /\ finalize_queue = 0
    /\ \E f \in FileIds : file_status[f] = PROCESSING /\ f \notin input_exists

(* ---------------------------- C24 -------------------------------------- *)
\* C24: convert_file_task delivered for a file id that has no row returns
\* at once: no row, no file on disk and no archive changes, no
\* finalize_job_task is enqueued, and the pool process is free again.
C24_AbsentUnitNoOp ==
    [][\A s \in Slots, f \in FileIds :
         (ConvertLoad(s, f) /\ file_status[f] = NoFile)
           => UNCHANGED <<store, disk, finalize_queue, tasks>>]_vars

\* the upload failed after both workers were enqueued: the rows are gone,
\* the message of file 1 has been taken, the message of file 2 is waiting
C24_Witness ==
    /\ job_status = NoJob
    /\ Files = {}
    /\ convert_queue[1] = 0
    /\ convert_queue[2] > 0
    /\ finalize_queue = 0
    /\ \A s \in Slots : tasks[s] = Idle

(* ---------------------------- C25 -------------------------------------- *)
\* C25: finalize_job_task delivered for a job id that has no row returns at
\* once: no row, no file on disk and no archive changes, nothing is
\* enqueued, and the pool process is free again.
C25_AbsentBatchNoOp ==
    [][\A s \in Slots :
         (FinalizeLoad(s) /\ job_status = NoJob)
           => UNCHANGED <<store, disk, convert_queue, tasks>>]_vars

\* the upload failed after a worker had triggered the finalizer: the job row
\* is gone and a finalize message is waiting for a free pool process
C25_Witness ==
    /\ job_status = NoJob
    /\ dispatch.code = 500
    /\ finalize_queue > 0
    /\ \E s \in Slots : tasks[s] = Idle

(* ---------------------------- C26 -------------------------------------- *)
\* C26: download gating: GET /jobs/{id}/download answers 404 when the job
\* has no row, 400 while the job is PENDING, PROCESSING or FAILED (whether or
\* not an archive file exists), 404 when the job is COMPLETED or
\* PARTIAL_SUCCESS and the archive file is missing, and the archive otherwise.
C26_DownloadGating ==
    LET r == download_job_result IN
    /\ job_status = NoJob => r.code = 404
    /\ job_status \in {PENDING, PROCESSING, FAILED} => r.code = 400
    /\ (job_status \in {COMPLETED, PARTIAL_SUCCESS} /\ bundle.state = "absent")
         => r.code = 404
    /\ (job_status \in {COMPLETED, PARTIAL_SUCCESS} /\ bundle.state # "absent")
         => (r.code = 200 /\ r.archive = bundle)
    /\ r.code # 200 => r.archive = NoBundle

\* a job that is not downloadable although an archive file exists, answered
\* with 400
C26_Witness ==
    /\ job_status \in {PROCESSING, FAILED}
    /\ bundle.state # "absent"
    /\ download_job_result.code = 400

C28_NoDocxRejected ==
    [][RejectNoDocx
         => /\ dispatch'.code = 400
            /\ job_status' = NoJob
            /\ \A f \in FileIds : file_status'[f] = NoFile
            /\ \A f \in FileIds : convert_queue'[f] = 0]_vars

(* ---------------------------- C29 -------------------------------------- *)
\* C29: an accepted upload is answered 202 with status "pending", whatever
\* the workers have done by the time create_job returns.
C29_AcceptedPending ==
    dispatch.code = 202 => dispatch.status = PENDING

(* ---------------------------- C30 -------------------------------------- *)
\* C30: cascading ownership: deleting a job deletes every file row of it, so
\* no file row exists without its job row.
C30_CascadeDelete ==
    job_status = NoJob => Files = {}

\* the job was deleted after its second file had been created and enqueued
C30_Witness ==
    /\ job_status = NoJob
    /\ dispatch.code = 500
    /\ convert_queue[2] > 0
    /\ Files = {}

(* ---------------------------- C31 -------------------------------------- *)
\* C31: quiescent aggregate: once the upload is accepted, every job file is
\* terminal and no convert_file_task or finalize_job_task is queued or
\* running, the job status is the aggregate of the job files' statuses; a
\* finalizer that counted an older set of rows does not leave its value as
\* the final one.
C31_QuiescentAggregate ==
    (AtRest /\ Files # {} /\ AllTerminal)
      => job_status = AggregateOf(FailedCount, TotalCount)

(* ---------------------------- C32 -------------------------------------- *)
\* C32: finalizer frame: no step of a finalize_job_task invocation changes a
\* job file's status or error_message; the only row it writes is the job's
\* status, and the value it writes is terminal.
C32_FinalizerFrame ==
    [][\A s \in Slots :
         (Finalizer(s) \/ ArchiveFault(s))
           => /\ UNCHANGED <<file_status, error_message>>
              /\ job_status' # job_status => job_status' \in JobTerminal]_vars

\* a finalizer has committed a terminal job status and the failed file still
\* carries the status and the message its worker wrote
C32_Witness ==
    /\ job_status \in JobTerminal
    /\ \A s \in Slots : tasks[s].kind # "finalize"
    /\ \E f \in FileIds :
         file_status[f] = FAILED /\ error_message[f] = TimeoutMessage

(* ---------------------------- C33 -------------------------------------- *)
\* C33: worker frame: a step of a convert_file_task invocation changes no
\* job file other than the one it was called for, and changes the job
\* status only from PENDING to PROCESSING.
C33_WorkerFrame ==
    [][\A s \in Slots :
         (tasks[s].kind = "convert" /\ Worker(s))
           => /\ \A g \in FileIds \ {tasks[s].file} :
                   /\ file_status'[g] = file_status[g]
                   /\ error_message'[g] = error_message[g]
              /\ job_status' # job_status
                   => (job_status = PENDING /\ job_status' = PROCESSING)]_vars

(* ---------------------------- C34 -------------------------------------- *)
\* Something outside the program (an operator, a clean-up job) removes a
\* converted PDF from the job directory: the case lines 113-116 of
\* finalize_job_task provide for.
RemoveOutput(f) ==
    /\ f \in pdf
    /\ pdf' = pdf \ {f}
    /\ UNCHANGED <<store, input_exists, bundle, queues, dispatch, tasks>>

\* every job file is terminal, every COMPLETED file has its PDF, and the one
\* finalize_job_task of the job is queued
InitLost ==
    /\ job_status = PROCESSING
    /\ file_status \in [FileIds -> FileTerminal \cup {NoFile}]
    /\ \E n \in FileIds : Files = 1..n
    /\ error_message \in [FileIds -> {NoError, TimeoutMessage, ErrorMessage}]
    /\ \A f \in FileIds : file_status[f] = FAILED <=> error_message[f] # NoError
    /\ input_exists = Files
    /\ pdf = FilesIn({COMPLETED})
    /\ bundle = NoBundle
    /\ convert_queue = [f \in FileIds |-> 0]
    /\ finalize_queue = 1
    /\ redelivered = MaxRedeliver
    /\ dispatch = [pc |-> "done", code |-> 202, status |-> PENDING]
    /\ tasks = [s \in Slots |-> Idle]

NextLost ==
    \/ \E s \in Slots : Finalizer(s)
    \/ \E f \in FileIds : RemoveOutput(f)

SpecLost == InitLost /\ [][NextLost]_vars

\* C34: a missing output does not abort bundling: when the finalizer has
\* run for a job with a COMPLETED file, the archive is complete, holds
\* nothing but PDFs of COMPLETED files, holds the PDF of every COMPLETED file
\* whose PDF is there, and the job has the terminal status of its files,
\* whether or not the PDF of some COMPLETED file was missing.
C34_MissingOutputSkipped ==
    (RaceOver /\ FilesIn({COMPLETED}) # {})
      => /\ bundle.state = "ok"
         /\ \A f \in FileIds : bundle.entries[f] > 0 => file_status[f] = COMPLETED
         /\ \A f \in FilesIn({COMPLETED}) \cap pdf : bundle.entries[f] = 1
         /\ job_status = AggregateOf(FailedCount, TotalCount)

\* the finalizer has run: the PDF of one COMPLETED file was missing and is
\* not in the archive, the PDF of the other is, and the job is COMPLETED
C34_Witness ==
    /\ RaceOver
    /\ job_status = COMPLETED
    /\ bundle.state = "ok"
    /\ \E f, g \in FilesIn({COMPLETED}) :
         /\ f \notin pdf
         /\ bundle.entries[f] = 0
         /\ bundle.entries[g] = 1

(* ---------------------------- C35 -------------------------------------- *)
\* C35: in every reachable state a COMPLETED or PARTIAL_SUCCESS job has at
\* least one COMPLETED job file, and a FAILED job has at least one job file
\* and no COMPLETED one.
C35_StatusHasEvidence ==
    /\ job_status \in {COMPLETED, PARTIAL_SUCCESS} => FilesIn({COMPLETED}) # {}
    /\ job_status = FAILED => (Files # {} /\ FilesIn({COMPLETED}) = {})

(* ---------------------------- C36 -------------------------------------- *)
\* C36: create_job enqueues exactly one convert_file_task per job file it
\* creates: with every message delivered once, a job file has at most one
\* invocation queued or running, a job file that is still PENDING has exactly
\* one, a file id without a row has none, and after the 202 the job files
\* are the entries 1..N of the upload.
C36_OneWorkerPerUnit ==
    LET Invocations(f) ==
          convert_queue[f]
            + Cardinality({s \in Slots : tasks[s].kind = "convert"
                                          /\ tasks[s].file = f})
    IN
    /\ \A f \in FileIds : Invocations(f) <= 1
    /\ \A f \in FileIds : file_status[f] = PENDING => Invocations(f) = 1
    /\ \A f \in FileIds :
         (job_status # NoJob /\ file_status[f] = NoFile) => Invocations(f) = 0
    /\ dispatch.code = 202 => \E n \in FileIds : Files = 1..n

\* the upload of MaxFiles entries was accepted: each job file is PENDING
\* and has its one message in the queue
C36_Witness ==
    /\ dispatch.code = 202
    /\ \A f \in FileIds : file_status[f] = PENDING /\ convert_queue[f] = 1
    /\ \A s \in Slots : tasks[s] = Idle

(* ---------------------------- C37 -------------------------------------- *)
\* The upload was accepted before any worker started, every input file is
\* in place, and the queue holds the message of one job file twice.
InitDup ==
    /\ job_status = PENDING
    /\ \E n \in FileIds :
         file_status = [f \in FileIds |-> IF f <= n THEN PENDING ELSE NoFile]
    /\ error_message = [f \in FileIds |-> NoError]
    /\ input_exists = Files
    /\ pdf = {}
    /\ bundle = NoBundle
    /\ \E d \in Files :
         convert_queue = [f \in FileIds |-> IF f = d THEN 2
                                            ELSE IF f \in Files THEN 1 ELSE 0]
    /\ finalize_queue = 0
    /\ redelivered = MaxRedeliver
    /\ dispatch = [pc |-> "done", code |-> 202, status |-> PENDING]
    /\ tasks = [s \in Slots |-> Idle]

NextDup == \E s \in Slots : Worker(s) \/ Finalizer(s)

SpecDup == InitDup /\ [][NextDup]_vars

\* C37: duplicate delivery converges: when both invocations for the job
\* file delivered twice, every other worker and every finalizer they
\* triggered have run, every job file is terminal and the job status is the
\* aggregate of the job files' final statuses.
C37_DuplicateConverges ==
    AtRest => /\ AllTerminal
              /\ job_status = AggregateOf(FailedCount, TotalCount)

(* ---------------------------- C38 -------------------------------------- *)
\* C38: no automatic retry: no step of a convert_file_task invocation
\* enqueues a convert_file_task; the conversion step is taken once, after it
\* the invocation only triggers the finalizer (unless the rows were deleted
\* under it) and returns; and a conversion
\* that timed out leaves the job file FAILED with the timeout message and
\* the invocation on its way to the finalizer call.
C38_NoRetry ==
    [][\A s \in Slots :
         /\ Worker(s) => \A f \in FileIds : convert_queue'[f] <= convert_queue[f]
         /\ (tasks[s].kind = "convert" /\ tasks[s].pc = "trigger")
              => \/ tasks'[s] = tasks[s]
                 \/ /\ tasks'[s] = Idle
                    /\ file_status[tasks[s].file] # NoFile
                         => finalize_queue' = finalize_queue + 1
         /\ (/\ ConvertRun(s, "timeout")
             /\ file_status[tasks[s].file] # NoFile
             /\ tasks[s].file \in input_exists)
              => /\ file_status'[tasks[s].file] = FAILED
                 /\ error_message'[tasks[s].file] = TimeoutMessage
                 /\ tasks'[s].pc = "trigger"]_vars

\* a conversion timed out: the job file is FAILED with the timeout message,
\* no message for it is queued, its worker has returned and the finalizer
\* it triggered is queued
C38_Witness ==
    /\ \E f \in FileIds :
         /\ file_status[f] = FAILED
         /\ error_message[f] = TimeoutMessage
         /\ convert_queue[f] = 0
    /\ finalize_queue > 0
    /\ \A s \in Slots : tasks[s] = Idle

====
